---- MODULE Spec2Model ----
(***************************************************************************)
(* DocuMind backend utilities: the preprocessing scripts (preprocess.py,   *)
(* preprocess_advanced.py) and the OCR script (ocr.py).                    *)
(*                                                                         *)
(* One behaviour is one invocation of one script from its main().  The     *)
(* environment (argv, the file system, the decoded image, the OCR engine's *)
(* token table) is drawn in Init; faults of library calls are drawn in the *)
(* action that makes the call.                                             *)
(*                                                                         *)
(* Conventions:                                                            *)
(*   - a text is a sequence of one-character strings;                      *)
(*   - the reported average_confidence is kept in hundredths (8033 stands  *)
(*     for 80.33), the two decimals round(x, 2) keeps;                     *)
(*   - an image is [w, h, ch]: width, height and channel count, the part   *)
(*     of a numpy array that image.shape exposes; its brightness           *)
(*     statistics are the pair (mean, std) that np.mean / np.std return.   *)
(***************************************************************************)
EXTENDS Integers, Sequences, FiniteSets

VARIABLES
    script,     \* which script's main() is running
    argv,       \* the command-line arguments after the program name
    exists,     \* os.path.exists(path)
    readable,   \* "cv": cv2.imread decodes it; "pil": only PIL does; "none"
    image,      \* the decoded input: [w, h, mean, std]
    tokens,     \* rows of pytesseract.image_to_data: [text, conf]
    pc,         \* position in the script
    mode,       \* the local variable mode of preprocess_image
    ran,        \* the pipeline function entered ("none" before the dispatch)
    cur,        \* the image value flowing through the pipeline [w, h, ch]
    applied,    \* the operations applied to the image so far
    steps,      \* the local variable steps (the description list)
    raised,     \* the class name of the exception in flight ("none" if none)
    avg,        \* avg_confidence before rounding, a fraction [num, den]
    wc,         \* word_count
    written,    \* the processed image was written by cv2.imwrite
    out,        \* the JSON results printed to stdout
    procs,      \* concurrent invocations of preprocess_image, one record each
    files       \* the file system they share: path -> content

vars == <<script, argv, exists, readable, image, tokens, pc, mode, ran, cur,
          applied, steps, raised, avg, wc, written, out, procs, files>>

\* the state of a single invocation
single == <<script, argv, exists, readable, image, tokens, pc, mode, ran, cur,
            applied, steps, raised, avg, wc, written, out>>

\* the state of the concurrent invocations
conc == <<procs, files>>

----------------------------------------------------------------------------
(* Bounds *)

MaxDim == 2
MaxTokens == 3
NumInvocations == 2

(* Thresholds of auto_detect_mode *)
LowContrastStd == 40
BrightMean == 200
HighContrastStd == 50

Scripts == {"preprocess.py", "preprocess_advanced.py", "ocr.py"}

ConcreteModes == {"standard", "aggressive", "minimal", "receipt"}
DocumentedModes == {"auto"} \cup ConcreteModes
\* mode strings a caller can put on the command line
ModeArgs == DocumentedModes \cup {"bogus"}

MeanVals == {0, 128, 200, 201, 255}
StdVals == {0, 39, 40, 41, 50, 51, 100}

Whitespace == {" ", "\t"}
Confs == {-1, 0, 80, 81}

\* texts of a row: empty, blank, a word, a word between blanks
Texts == {<<>>, <<" ">>, <<"a">>, <<" ", "a", "\t">>}
Tokens == [text : Texts, conf : Confs]
TokenLists == UNION {[1..n -> Tokens] : n \in 0..MaxTokens}

NoImage == [w |-> 0, h |-> 0, mean |-> 0, std |-> 0]
NoCur == [w |-> 0, h |-> 0, ch |-> 0]

----------------------------------------------------------------------------
(* Pipeline operations *)

Scale(f) == [op |-> "scale", interp |-> "cubic", factor |-> f]
Grayscale == [op |-> "grayscale"]
GaussianBlur(k) == [op |-> "gaussian-blur", kw |-> k, kh |-> k]
OtsuThreshold == [op |-> "threshold", kind |-> "otsu"]
FixedThreshold(c) == [op |-> "threshold", kind |-> "fixed", cutoff |-> c]
Denoise(s) == [op |-> "denoise", strength |-> s]
AdaptiveThreshold(b, c) ==
    [op |-> "adaptive-threshold", method |-> "gaussian", block |-> b, C |-> c]
Clahe(clip, t) == [op |-> "clahe", clip |-> clip, tw |-> t, th |-> t]
Dilate(k, n) == [op |-> "dilate", kw |-> k, kh |-> k, iters |-> n]
MorphOpen(k) == [op |-> "morphological-open", kw |-> k, kh |-> k]

preprocess_standard ==
    << Scale(2), Grayscale, GaussianBlur(5), OtsuThreshold, Dilate(2, 1),
       MorphOpen(2) >>

\* variant: the dilation of standard mode (2x2, one iteration)
preprocess_aggressive_weak ==
    << Scale(2), Grayscale, Denoise(10), AdaptiveThreshold(11, 2),
       Dilate(2, 1) >>

preprocess_aggressive ==
    << Scale(2), Grayscale, Denoise(10), AdaptiveThreshold(11, 2),
       Dilate(3, 2) >>

\* variant: the threshold is taken before the grayscale conversion
preprocess_minimal_late ==
    << Scale(2), FixedThreshold(127), Grayscale >>

preprocess_minimal ==
    << Scale(2), Grayscale, FixedThreshold(127) >>

\* variant: the 2x scaling of the other modes
preprocess_receipt_2x ==
    << Scale(2), Grayscale, Clahe(2, 8), OtsuThreshold, Dilate(3, 2) >>

preprocess_receipt ==
    << Scale(3), Grayscale, Clahe(2, 8), OtsuThreshold, Dilate(3, 2) >>

\* the steps of preprocess.py's preprocess_image, which are inline
preprocess_inline ==
    << Scale(2), Grayscale, GaussianBlur(5), OtsuThreshold, Dilate(2, 1),
       MorphOpen(2) >>

\* the body of the pipeline function that was entered
Pipeline(f) ==
    CASE f = "aggressive" -> preprocess_aggressive
      [] f = "minimal" -> preprocess_minimal
      [] f = "receipt" -> preprocess_receipt
      [] f = "standard" -> preprocess_standard
      [] f = "inline" -> preprocess_inline
      [] OTHER -> <<>>

\* what one OpenCV call does to the shape of the image
ApplyOp(o, img) ==
    CASE o.op = "scale" ->
            [img EXCEPT !.w = img.w * o.factor, !.h = img.h * o.factor]
      [] o.op = "grayscale" -> [img EXCEPT !.ch = 1]
      [] OTHER -> img

\* variant: the low-contrast test admits its boundary
auto_detect_mode_le(mean_brightness, std_brightness) ==
    IF std_brightness <= LowContrastStd THEN "aggressive"
    ELSE IF mean_brightness > BrightMean /\ std_brightness > HighContrastStd
         THEN "minimal"
    ELSE "standard"

auto_detect_mode(mean_brightness, std_brightness) ==
    IF std_brightness < LowContrastStd THEN "aggressive"
    ELSE IF mean_brightness > BrightMean /\ std_brightness > HighContrastStd
         THEN "minimal"
    ELSE "standard"

\* the if/elif chain of preprocess_image: the function called for a mode
Dispatch(m) ==
    IF m = "aggressive" THEN "aggressive"
    ELSE IF m = "minimal" THEN "minimal"
    ELSE IF m = "receipt" THEN "receipt"
    ELSE "standard"

\* variant: the aggressive list lacks the denoising line
StepDescriptions_short(f) ==
    CASE f = "aggressive" ->
            << "2x Image Scaling (INTER_CUBIC)", "Grayscale conversion",
               "Adaptive Thresholding (Gaussian)",
               "Dilation (3x3 kernel, 2 iterations)" >>
      [] f = "minimal" ->
            << "2x Image Scaling (INTER_CUBIC)", "Grayscale conversion",
               "Simple Binary Thresholding" >>
      [] f = "receipt" ->
            << "3x Image Scaling (INTER_CUBIC)", "Grayscale conversion",
               "CLAHE Contrast Enhancement", "Otsu's Thresholding",
               "Dilation (3x3 kernel, 2 iterations)" >>
      [] OTHER ->
            << "2x Image Scaling (INTER_CUBIC)", "Grayscale conversion",
               "Gaussian Blur (5x5 kernel)", "Otsu's Thresholding",
               "Dilation (2x2 kernel, 1 iteration)",
               "Morphological Opening (noise removal)" >>

StepDescriptions(f) ==
    CASE f = "aggressive" ->
            << "2x Image Scaling (INTER_CUBIC)", "Grayscale conversion",
               "Fast NL Means Denoising", "Adaptive Thresholding (Gaussian)",
               "Dilation (3x3 kernel, 2 iterations)" >>
      [] f = "minimal" ->
            << "2x Image Scaling (INTER_CUBIC)", "Grayscale conversion",
               "Simple Binary Thresholding" >>
      [] f = "receipt" ->
            << "3x Image Scaling (INTER_CUBIC)", "Grayscale conversion",
               "CLAHE Contrast Enhancement", "Otsu's Thresholding",
               "Dilation (3x3 kernel, 2 iterations)" >>
      [] OTHER ->
            << "2x Image Scaling (INTER_CUBIC)", "Grayscale conversion",
               "Gaussian Blur (5x5 kernel)", "Otsu's Thresholding",
               "Dilation (2x2 kernel, 1 iteration)",
               "Morphological Opening (noise removal)" >>

----------------------------------------------------------------------------
(* OCR result aggregation *)

RECURSIVE lstrip(_)
lstrip(s) ==
    IF s = <<>> THEN s
    ELSE IF Head(s) \in Whitespace THEN lstrip(Tail(s)) ELSE s

RECURSIVE rstrip(_)
rstrip(s) ==
    IF s = <<>> THEN s
    ELSE IF s[Len(s)] \in Whitespace THEN rstrip(SubSeq(s, 1, Len(s) - 1))
    ELSE s

\* str.strip()
strip(s) == rstrip(lstrip(s))

RECURSIVE SumSeq(_)
SumSeq(s) == IF s = <<>> THEN 0 ELSE Head(s) + SumSeq(Tail(s))

\* variant: zero confidences are kept
confidences_ge(data) ==
    LET keep(t) == t.conf >= 0
        conf(i) == SelectSeq(data, keep)[i].conf
    IN [i \in 1..Len(SelectSeq(data, keep)) |-> conf(i)]

\* [int(conf) for conf in data['conf'] if int(conf) > 0]
confidences(data) ==
    LET keep(t) == t.conf > 0
        conf(i) == SelectSeq(data, keep)[i].conf
    IN [i \in 1..Len(SelectSeq(data, keep)) |-> conf(i)]

\* round(total / n, 2) in hundredths, ties to even
Round2(total, n) ==
    LET q == (100 * total) \div n
        r == (100 * total) % n
    IN IF 2 * r < n THEN q
       ELSE IF 2 * r > n THEN q + 1
       ELSE IF q % 2 = 0 THEN q ELSE q + 1

\* sum(confidences) / len(confidences) if confidences else 0
avg_confidence(data) ==
    LET c == confidences(data)
    IN IF c # <<>> THEN [num |-> SumSeq(c), den |-> Len(c)]
       ELSE [num |-> 0, den |-> 1]

\* variant: the text is tested without strip()
word_count_raw(data) ==
    LET keep(t) == t.text # <<>>
    IN Len(SelectSeq(data, keep))

\* len([word for word in data['text'] if word.strip()])
word_count(data) ==
    LET keep(t) == strip(t.text) # <<>>
    IN Len(SelectSeq(data, keep))

----------------------------------------------------------------------------
(* Results printed to stdout *)

SuccessAdvanced ==
    [success |-> TRUE, script |-> script, mode |-> mode,
     original_dimensions |-> <<image.w, image.h>>,
     processed_dimensions |-> <<cur.w, cur.h>>,
     preprocessing_steps |-> steps]

SuccessPreprocess ==
    [success |-> TRUE, script |-> script, scaling_factor |-> 2,
     original_dimensions |-> <<image.w, image.h>>,
     processed_dimensions |-> <<image.w * 2, image.h * 2>>,
     preprocessing_steps |-> StepDescriptions("inline")]

SuccessOcr ==
    [success |-> TRUE, script |-> script, word_count |-> wc,
     average_confidence |-> Round2(avg.num, avg.den)]

Failure(category) == [success |-> FALSE, script |-> script, error |-> category]

\* the except clauses of preprocess.py
PreprocessCategory(e) ==
    IF e = "FileNotFoundError" THEN "File not found"
    ELSE IF e = "ValueError" THEN "Invalid image"
    ELSE "Processing failed"

\* the single except clause of preprocess_advanced.py: type(e).__name__
AdvancedCategory(e) == e

\* the except clauses of ocr.py
OcrCategory(e) ==
    IF e = "FileNotFoundError" THEN "File not found"
    ELSE IF e = "TesseractNotFoundError" THEN "Tesseract not found"
    ELSE "OCR failed"

----------------------------------------------------------------------------
(* Environment *)

Argvs(s) ==
    CASE s = "preprocess.py" -> {<<>>, <<"img">>, <<"img", "extra">>}
      [] s = "preprocess_advanced.py" ->
            {<<>>, <<"img">>} \cup {<<"img", m>> : m \in ModeArgs}
      [] s = "ocr.py" -> {<<>>, <<"img">>}

\* brightness statistics a non-empty 8-bit image can have
Images ==
    {i \in [w : 1..MaxDim, h : 1..MaxDim, mean : MeanVals, std : StdVals] :
        i.std * i.std <= i.mean * (255 - i.mean)}

Init ==
    /\ script \in Scripts
    /\ argv \in Argvs(script)
    /\ exists \in IF argv = <<>> THEN {FALSE} ELSE BOOLEAN
    /\ readable \in IF exists THEN {"cv", "pil", "none"} ELSE {"none"}
    /\ image \in IF readable = "cv" /\ script # "ocr.py" THEN Images
                 ELSE {NoImage}
    /\ tokens \in IF readable # "none" /\ script = "ocr.py" THEN TokenLists
                  ELSE {<<>>}
    /\ pc = "main"
    /\ mode = "auto"
    /\ ran = "none"
    /\ cur = NoCur
    /\ applied = <<>>
    /\ steps = <<>>
    /\ raised = "none"
    /\ avg = [num |-> 0, den |-> 1]
    /\ wc = 0
    /\ written = FALSE
    /\ out = <<>>
    /\ procs = <<>>
    /\ files = <<>>

env == <<script, argv, exists, readable, image, tokens>>

Raise(e) == raised' = e /\ pc' = "except"

----------------------------------------------------------------------------
(* preprocess.py *)

Pre_Main ==
    /\ script = "preprocess.py" /\ pc = "main"
    /\ IF Len(argv) # 1
       THEN /\ out' = Append(out, Failure("Invalid arguments"))
            /\ pc' = "exited"
       ELSE /\ pc' = "exists"
            /\ out' = out
    /\ UNCHANGED <<conc, env, mode, ran, cur, applied, steps, raised, avg, wc,
                   written>>

Pre_Exists ==
    /\ script = "preprocess.py" /\ pc = "exists"
    /\ IF ~exists THEN Raise("FileNotFoundError")
       ELSE pc' = "imread" /\ raised' = raised
    /\ UNCHANGED <<conc, env, mode, ran, cur, applied, steps, avg, wc, written, out>>

Pre_Imread ==
    /\ script = "preprocess.py" /\ pc = "imread"
    /\ IF readable # "cv"
       THEN Raise("ValueError") /\ UNCHANGED <<cur, ran>>
       ELSE /\ cur' = [w |-> image.w, h |-> image.h, ch |-> 3]
            /\ ran' = "inline"
            /\ pc' = "pipeline"
            /\ raised' = raised
    /\ UNCHANGED <<conc, env, mode, applied, steps, avg, wc, written, out>>

\* one OpenCV call of the inline pipeline: it returns or raises cv2.error
Pre_Step ==
    /\ script = "preprocess.py" /\ pc = "pipeline"
    /\ Len(applied) < Len(Pipeline(ran))
    /\ \/ /\ applied' = Append(applied, Pipeline(ran)[Len(applied) + 1])
          /\ cur' = ApplyOp(Pipeline(ran)[Len(applied) + 1], cur)
          /\ pc' = IF Len(applied') = Len(Pipeline(ran)) THEN "imwrite"
                   ELSE "pipeline"
          /\ raised' = raised
       \/ Raise("error") /\ UNCHANGED <<applied, cur>>
    /\ UNCHANGED <<conc, env, mode, ran, steps, avg, wc, written, out>>

Pre_Imwrite ==
    /\ script = "preprocess.py" /\ pc = "imwrite"
    /\ \/ written' = TRUE /\ pc' = "print" /\ raised' = raised
       \/ Raise("OSError") /\ written' = written
    /\ UNCHANGED <<conc, env, mode, ran, cur, applied, steps, avg, wc, out>>

Pre_Print ==
    /\ script = "preprocess.py" /\ pc = "print"
    /\ out' = Append(out, SuccessPreprocess)
    /\ pc' = "returned"
    /\ UNCHANGED <<conc, env, mode, ran, cur, applied, steps, raised, avg, wc,
                   written>>

Pre_Except ==
    /\ script = "preprocess.py" /\ pc = "except"
    /\ out' = Append(out, Failure(PreprocessCategory(raised)))
    /\ pc' = "exited"
    /\ UNCHANGED <<conc, env, mode, ran, cur, applied, steps, raised, avg, wc,
                   written>>

----------------------------------------------------------------------------
(* preprocess_advanced.py *)

\* variant: the usage error is printed without sys.exit
Adv_Main_noexit ==
    /\ script = "preprocess_advanced.py" /\ pc = "main"
    /\ IF Len(argv) < 1
       THEN /\ out' = Append(out, Failure("Invalid arguments"))
            /\ pc' = "exists"
            /\ mode' = mode
       ELSE /\ mode' = IF Len(argv) > 1 THEN argv[2] ELSE "auto"
            /\ pc' = "exists"
            /\ out' = out
    /\ UNCHANGED <<conc, env, ran, cur, applied, steps, raised, avg, wc, written>>

Adv_Main ==
    /\ script = "preprocess_advanced.py" /\ pc = "main"
    /\ IF Len(argv) < 1
       THEN /\ out' = Append(out, Failure("Invalid arguments"))
            /\ pc' = "exited"
            /\ mode' = mode
       ELSE /\ mode' = IF Len(argv) > 1 THEN argv[2] ELSE "auto"
            /\ pc' = "exists"
            /\ out' = out
    /\ UNCHANGED <<conc, env, ran, cur, applied, steps, raised, avg, wc, written>>

Adv_Exists ==
    /\ script = "preprocess_advanced.py" /\ pc = "exists"
    /\ IF ~exists THEN Raise("FileNotFoundError")
       ELSE pc' = "imread" /\ raised' = raised
    /\ UNCHANGED <<conc, env, mode, ran, cur, applied, steps, avg, wc, written, out>>

Adv_Imread ==
    /\ script = "preprocess_advanced.py" /\ pc = "imread"
    /\ IF readable # "cv"
       THEN Raise("ValueError") /\ cur' = cur
       ELSE /\ cur' = [w |-> image.w, h |-> image.h, ch |-> 3]
            /\ pc' = "resolve"
            /\ raised' = raised
    /\ UNCHANGED <<conc, env, mode, ran, applied, steps, avg, wc, written, out>>

Adv_Resolve ==
    /\ script = "preprocess_advanced.py" /\ pc = "resolve"
    /\ mode' = IF mode = "auto" THEN auto_detect_mode(image.mean, image.std)
               ELSE mode
    /\ pc' = "dispatch"
    /\ UNCHANGED <<conc, env, ran, cur, applied, steps, raised, avg, wc, written,
                   out>>

Adv_Dispatch ==
    /\ script = "preprocess_advanced.py" /\ pc = "dispatch"
    /\ ran' = Dispatch(mode)
    /\ pc' = "pipeline"
    /\ UNCHANGED <<conc, env, mode, cur, applied, steps, raised, avg, wc, written,
                   out>>

\* variant: the image in hand is saved when a call raises
Adv_Step_save ==
    /\ script = "preprocess_advanced.py" /\ pc = "pipeline"
    /\ Len(applied) < Len(Pipeline(ran))
    /\ \/ /\ applied' = Append(applied, Pipeline(ran)[Len(applied) + 1])
          /\ cur' = ApplyOp(Pipeline(ran)[Len(applied) + 1], cur)
          /\ IF Len(applied') = Len(Pipeline(ran))
             THEN pc' = "imwrite" /\ steps' = StepDescriptions(ran)
             ELSE pc' = "pipeline" /\ steps' = steps
          /\ raised' = raised
          /\ written' = written
       \/ Raise("error") /\ written' = TRUE /\ UNCHANGED <<applied, cur, steps>>
    /\ UNCHANGED <<conc, env, mode, ran, avg, wc, out>>

\* one OpenCV call of the pipeline function: it returns or raises cv2.error;
\* after the last one the function returns and steps is assigned
Adv_Step ==
    /\ script = "preprocess_advanced.py" /\ pc = "pipeline"
    /\ Len(applied) < Len(Pipeline(ran))
    /\ \/ /\ applied' = Append(applied, Pipeline(ran)[Len(applied) + 1])
          /\ cur' = ApplyOp(Pipeline(ran)[Len(applied) + 1], cur)
          /\ IF Len(applied') = Len(Pipeline(ran))
             THEN pc' = "imwrite" /\ steps' = StepDescriptions(ran)
             ELSE pc' = "pipeline" /\ steps' = steps
          /\ raised' = raised
       \/ Raise("error") /\ UNCHANGED <<applied, cur, steps>>
    /\ UNCHANGED <<conc, env, mode, ran, avg, wc, written, out>>

Adv_Imwrite ==
    /\ script = "preprocess_advanced.py" /\ pc = "imwrite"
    /\ \/ written' = TRUE /\ pc' = "print" /\ raised' = raised
       \/ Raise("OSError") /\ written' = written
    /\ UNCHANGED <<conc, env, mode, ran, cur, applied, steps, avg, wc, out>>

Adv_Print ==
    /\ script = "preprocess_advanced.py" /\ pc = "print"
    /\ out' = Append(out, SuccessAdvanced)
    /\ pc' = "returned"
    /\ UNCHANGED <<conc, env, mode, ran, cur, applied, steps, raised, avg, wc,
                   written>>

Adv_Except ==
    /\ script = "preprocess_advanced.py" /\ pc = "except"
    /\ out' = Append(out, Failure(AdvancedCategory(raised)))
    /\ pc' = "exited"
    /\ UNCHANGED <<conc, env, mode, ran, cur, applied, steps, raised, avg, wc,
                   written>>

----------------------------------------------------------------------------
(* ocr.py *)

Ocr_Main ==
    /\ script = "ocr.py" /\ pc = "main"
    /\ IF Len(argv) < 1
       THEN /\ out' = Append(out, Failure("Invalid arguments"))
            /\ pc' = "exited"
       ELSE /\ pc' = "exists"
            /\ out' = out
    /\ UNCHANGED <<conc, env, mode, ran, cur, applied, steps, raised, avg, wc,
                   written>>

Ocr_Exists ==
    /\ script = "ocr.py" /\ pc = "exists"
    /\ IF ~exists THEN Raise("FileNotFoundError")
       ELSE pc' = "imread" /\ raised' = raised
    /\ UNCHANGED <<conc, env, mode, ran, cur, applied, steps, avg, wc, written, out>>

\* cv2.imread, with Image.open as the fallback when it returns None
Ocr_Imread ==
    /\ script = "ocr.py" /\ pc = "imread"
    /\ IF readable = "none" THEN Raise("UnidentifiedImageError")
       ELSE pc' = "image_to_string" /\ raised' = raised
    /\ UNCHANGED <<conc, env, mode, ran, cur, applied, steps, avg, wc, written, out>>

Ocr_ImageToString ==
    /\ script = "ocr.py" /\ pc = "image_to_string"
    /\ \/ pc' = "image_to_data" /\ raised' = raised
       \/ Raise("TesseractNotFoundError")
       \/ Raise("TesseractError")
    /\ UNCHANGED <<conc, env, mode, ran, cur, applied, steps, avg, wc, written, out>>

Ocr_ImageToData ==
    /\ script = "ocr.py" /\ pc = "image_to_data"
    /\ \/ pc' = "aggregate" /\ raised' = raised
       \/ Raise("TesseractNotFoundError")
       \/ Raise("TesseractError")
    /\ UNCHANGED <<conc, env, mode, ran, cur, applied, steps, avg, wc, written, out>>

Ocr_Aggregate ==
    /\ script = "ocr.py" /\ pc = "aggregate"
    /\ avg' = avg_confidence(tokens)
    /\ wc' = word_count(tokens)
    /\ pc' = "print"
    /\ UNCHANGED <<conc, env, mode, ran, cur, applied, steps, raised, written, out>>

\* the result dict (get_tesseract_version may raise) and its print
Ocr_Print ==
    /\ script = "ocr.py" /\ pc = "print"
    /\ \/ /\ out' = Append(out, SuccessOcr)
          /\ pc' = "returned"
          /\ raised' = raised
       \/ Raise("TesseractNotFoundError") /\ out' = out
    /\ UNCHANGED <<conc, env, mode, ran, cur, applied, steps, avg, wc, written>>

Ocr_Except ==
    /\ script = "ocr.py" /\ pc = "except"
    /\ out' = Append(out, Failure(OcrCategory(raised)))
    /\ pc' = "exited"
    /\ UNCHANGED <<conc, env, mode, ran, cur, applied, steps, raised, avg, wc,
                   written>>

----------------------------------------------------------------------------
(* compare_preprocessing.py *)

cmp_preprocess_standard ==
    << Scale(2), Grayscale, GaussianBlur(5), OtsuThreshold, Dilate(2, 1),
       MorphOpen(2) >>

cmp_preprocess_aggressive ==
    << Scale(2), Grayscale, Denoise(10), AdaptiveThreshold(11, 2),
       Dilate(3, 2) >>

cmp_preprocess_minimal ==
    << Scale(2), Grayscale, FixedThreshold(127) >>

cmp_preprocess_receipt ==
    << Scale(3), Grayscale, Clahe(2, 8), OtsuThreshold, Dilate(3, 2) >>

ComparePipeline(f) ==
    CASE f = "standard" -> cmp_preprocess_standard
      [] f = "aggressive" -> cmp_preprocess_aggressive
      [] f = "minimal" -> cmp_preprocess_minimal
      [] f = "receipt" -> cmp_preprocess_receipt
      [] OTHER -> <<>>

\* the order in which create_comparison calls the four functions
CompareOrder == <<"standard", "aggressive", "minimal", "receipt">>

CompareIndex(f) == CHOOSE k \in DOMAIN CompareOrder : CompareOrder[k] = f

Comparing == script = "compare_preprocessing.py"

\* the environment of a run of the comparison tool
CmpInit ==
    /\ script = "compare_preprocessing.py"
    /\ argv \in {<<>>, <<"img">>}
    /\ exists \in IF argv = <<>> THEN {FALSE} ELSE BOOLEAN
    /\ readable \in IF exists THEN {"cv", "pil", "none"} ELSE {"none"}
    /\ image \in IF readable = "cv" THEN Images ELSE {NoImage}
    /\ tokens = <<>>
    /\ pc = "main"
    /\ mode = "auto"
    /\ ran = "none"
    /\ cur = NoCur
    /\ applied = <<>>
    /\ steps = <<>>
    /\ raised = "none"
    /\ avg = [num |-> 0, den |-> 1]
    /\ wc = 0
    /\ written = FALSE
    /\ out = <<>>
    /\ procs = <<>>
    /\ files = <<>>

\* the __main__ block: a usage message and sys.exit(1) without an argument
Cmp_Main ==
    /\ Comparing /\ pc = "main"
    /\ pc' = IF Len(argv) < 1 THEN "exited" ELSE "read"
    /\ UNCHANGED <<conc, env, mode, ran, cur, applied, steps, raised, avg, wc,
                   written, out>>

\* the existence test and cv2.imread: an error line and return, or the
\* original image and the call of preprocess_standard
Cmp_Read ==
    /\ Comparing /\ pc = "read"
    /\ IF ~exists \/ readable # "cv"
       THEN pc' = "returned" /\ UNCHANGED <<cur, ran>>
       ELSE /\ cur' = [w |-> image.w, h |-> image.h, ch |-> 3]
            /\ ran' = CompareOrder[1]
            /\ pc' = "pipeline"
    /\ UNCHANGED <<conc, env, mode, applied, steps, raised, avg, wc, written, out>>

\* one OpenCV call of the function entered: it returns, or raises cv2.error,
\* which nothing catches
Cmp_Step ==
    /\ Comparing /\ pc = "pipeline"
    /\ Len(applied) < Len(ComparePipeline(ran))
    /\ \/ /\ applied' = Append(applied, ComparePipeline(ran)[Len(applied) + 1])
          /\ cur' = ApplyOp(ComparePipeline(ran)[Len(applied) + 1], cur)
          /\ pc' = IF Len(applied') = Len(ComparePipeline(ran)) THEN "collect"
                   ELSE "pipeline"
          /\ raised' = raised
       \/ /\ raised' = "error"
          /\ pc' = "exited"
          /\ UNCHANGED <<applied, cur>>
    /\ UNCHANGED <<conc, env, mode, ran, steps, avg, wc, written, out>>

\* the function returned: its result is kept and the next function is called
\* on the original image; after the last one the images are saved
Cmp_Collect ==
    /\ Comparing /\ pc = "collect"
    /\ IF CompareIndex(ran) < Len(CompareOrder)
       THEN /\ ran' = CompareOrder[CompareIndex(ran) + 1]
            /\ applied' = <<>>
            /\ cur' = [w |-> image.w, h |-> image.h, ch |-> 3]
            /\ pc' = "pipeline"
       ELSE /\ pc' = "save"
            /\ UNCHANGED <<ran, applied, cur>>
    /\ UNCHANGED <<conc, env, mode, steps, raised, avg, wc, written, out>>

\* the comparison grid and the four processed images are written
Cmp_Save ==
    /\ Comparing /\ pc = "save"
    /\ written' = TRUE
    /\ pc' = "returned"
    /\ UNCHANGED <<conc, env, mode, ran, cur, applied, steps, raised, avg, wc, out>>

CmpNext == Cmp_Main \/ Cmp_Read \/ Cmp_Step \/ Cmp_Collect \/ Cmp_Save

----------------------------------------------------------------------------

Next ==
    \/ Pre_Main \/ Pre_Exists \/ Pre_Imread \/ Pre_Step \/ Pre_Imwrite
    \/ Pre_Print \/ Pre_Except
    \/ Adv_Main \/ Adv_Exists \/ Adv_Imread \/ Adv_Resolve \/ Adv_Dispatch
    \/ Adv_Step \/ Adv_Imwrite \/ Adv_Print \/ Adv_Except
    \/ Ocr_Main \/ Ocr_Exists \/ Ocr_Imread \/ Ocr_ImageToString
    \/ Ocr_ImageToData \/ Ocr_Aggregate \/ Ocr_Print \/ Ocr_Except

\* every script of the repository, the comparison tool included
AllInit == Init \/ CmpInit

AllNext == Next \/ CmpNext

AllSpec == AllInit /\ [][AllNext]_vars

Spec == Init /\ [][Next]_vars

\* a script never blocks: each step of the interpreter is eventually taken
FairSpec == Spec /\ WF_vars(Next)

----------------------------------------------------------------------------
(* Concurrent invocations of preprocess_image (preprocess_advanced.py; the *)
(* save code of preprocess.py is the same).  A path is [dir, name], a name *)
(* a sequence of pieces whose last may be an extension.                    *)

Extensions == {".png", ".jpg"}
Dirs == {"", "uploads"}
InputNames ==
    {<<"a", ".png">>, <<"a", ".jpg">>, <<"processed_", "a", ".jpg">>}
InputPaths == [dir : Dirs, name : InputNames]

NoPath == [dir |-> "", name |-> <<>>]
Absent == [kind |-> "absent", of |-> 0]

basename(p) == p.name
dirname(p) == p.dir

\* os.path.splitext: <<root, ext>>
splitext(name) ==
    IF Len(name) > 1 /\ name[Len(name)] \in Extensions
    THEN <<SubSeq(name, 1, Len(name) - 1), name[Len(name)]>>
    ELSE <<name, "">>

\* os.path.join(input_dir, output_filename)
join(d, filename) == [dir |-> d, name |-> filename]

\* output_path of preprocess_image
output_path(input_path) ==
    LET input_filename == basename(input_path)
        name_without_ext == splitext(input_filename)[1]
        output_filename == <<"processed_">> \o name_without_ext \o <<".jpg">>
        input_dir == dirname(input_path)
    IN join(input_dir, output_filename)

AllPaths == InputPaths \cup {output_path(p) : p \in InputPaths}

Invocations == 1..NumInvocations

\* invocations on pairwise distinct input files, each file in place
ConcInit ==
    /\ script = "preprocess_advanced.py"
    /\ argv = <<>>
    /\ exists = FALSE
    /\ readable = "none"
    /\ image = NoImage
    /\ tokens = <<>>
    /\ pc = "concurrent"
    /\ mode = "auto"
    /\ ran = "none"
    /\ cur = NoCur
    /\ applied = <<>>
    /\ steps = <<>>
    /\ raised = "none"
    /\ avg = [num |-> 0, den |-> 1]
    /\ wc = 0
    /\ written = FALSE
    /\ out = <<>>
    /\ \E paths \in [Invocations -> InputPaths] :
          /\ \A j, k \in Invocations : j # k => paths[j] # paths[k]
          /\ procs = [k \in Invocations |->
                        [path |-> paths[k], pc |-> "exists", img |-> Absent,
                         wrote |-> NoPath, result |-> "none"]]
          /\ files = [p \in AllPaths |->
                        IF \E k \in Invocations : paths[k] = p
                        THEN [kind |-> "input",
                              of |-> CHOOSE k \in Invocations : paths[k] = p]
                        ELSE Absent]

Conc_Exists(k) ==
    /\ pc = "concurrent" /\ procs[k].pc = "exists"
    /\ procs' = [procs EXCEPT ![k].pc =
                    IF files[procs[k].path] = Absent THEN "except"
                    ELSE "imread"]
    /\ UNCHANGED <<single, files>>

\* cv2.imread decodes what the file holds at that moment
Conc_Imread(k) ==
    /\ pc = "concurrent" /\ procs[k].pc = "imread"
    /\ procs' = [procs EXCEPT ![k].img = files[procs[k].path],
                              ![k].pc = "pipeline"]
    /\ UNCHANGED <<single, files>>

\* the pipeline function works on the invocation's own image value
Conc_Pipeline(k) ==
    /\ pc = "concurrent" /\ procs[k].pc = "pipeline"
    /\ \/ procs' = [procs EXCEPT ![k].pc = "imwrite"]
       \/ procs' = [procs EXCEPT ![k].pc = "except"]
    /\ UNCHANGED <<single, files>>

Conc_Imwrite(k) ==
    /\ pc = "concurrent" /\ procs[k].pc = "imwrite"
    /\ \/ /\ files' = [files EXCEPT ![output_path(procs[k].path)] =
                          [kind |-> "output", of |-> k]]
          /\ procs' = [procs EXCEPT ![k].wrote = output_path(procs[k].path),
                                    ![k].pc = "print"]
       \/ /\ procs' = [procs EXCEPT ![k].pc = "except"]
          /\ files' = files
    /\ UNCHANGED single

Conc_Print(k) ==
    /\ pc = "concurrent" /\ procs[k].pc = "print"
    /\ procs' = [procs EXCEPT ![k].result = "success", ![k].pc = "returned"]
    /\ UNCHANGED <<single, files>>

Conc_Except(k) ==
    /\ pc = "concurrent" /\ procs[k].pc = "except"
    /\ procs' = [procs EXCEPT ![k].result = "failure", ![k].pc = "exited"]
    /\ UNCHANGED <<single, files>>

ConcNext ==
    \E k \in Invocations :
        \/ Conc_Exists(k) \/ Conc_Imread(k) \/ Conc_Pipeline(k)
        \/ Conc_Imwrite(k) \/ Conc_Print(k) \/ Conc_Except(k)

\* the invocations run in separate processes, in any interleaving
ConcSpec == ConcInit /\ [][ConcNext]_vars

----------------------------------------------------------------------------
(* Properties *)

Advanced == script = "preprocess_advanced.py"

\* the mode the caller asked for: sys.argv[2], "auto" when omitted
Requested == IF Len(argv) > 1 THEN argv[2] ELSE "auto"

\* the image was read and the mode selection has run
Resolved == Advanced /\ cur # NoCur /\ pc # "resolve"

IsPrefix(s, t) == Len(s) <= Len(t) /\ s = SubSeq(t, 1, Len(s))

\* C1: on a request for auto, the selected mode is aggressive when std < 40,
\* otherwise minimal when mean > 200 and std > 50, otherwise standard; it is
\* never receipt and never auto.
C1_AutoDetect ==
    (Resolved /\ Requested = "auto") =>
        /\ image.std < 40 => mode = "aggressive"
        /\ (image.std >= 40 /\ image.mean > 200 /\ image.std > 50)
               => mode = "minimal"
        /\ (image.std >= 40 /\ ~(image.mean > 200 /\ image.std > 50))
               => mode = "standard"
        /\ mode \notin {"receipt", "auto"}

C1_Witness ==
    /\ Resolved /\ Requested = "auto"
    /\ image.mean > 200 /\ image.std > 50
    /\ mode = "minimal"

\* C2: a mode string outside auto, standard, aggressive, minimal, receipt is
\* rejected: no pipeline function is entered, no processed image is written
\* and no success result is printed.
C2_InvalidModeRejected ==
    (Advanced /\ Requested \notin DocumentedModes) =>
        /\ ran = "none"
        /\ ~written
        /\ \A i \in DOMAIN out : ~out[i].success

\* the step table of the specification, section 4.3
RegistryTable(m) ==
    CASE m = "standard" ->
            << [op |-> "scale", interp |-> "cubic", factor |-> 2],
               [op |-> "grayscale"],
               [op |-> "gaussian-blur", kw |-> 5, kh |-> 5],
               [op |-> "threshold", kind |-> "otsu"],
               [op |-> "dilate", kw |-> 2, kh |-> 2, iters |-> 1],
               [op |-> "morphological-open", kw |-> 2, kh |-> 2] >>
      [] m = "aggressive" ->
            << [op |-> "scale", interp |-> "cubic", factor |-> 2],
               [op |-> "grayscale"],
               [op |-> "denoise", strength |-> 10],
               [op |-> "adaptive-threshold", method |-> "gaussian",
                block |-> 11, C |-> 2],
               [op |-> "dilate", kw |-> 3, kh |-> 3, iters |-> 2] >>
      [] m = "minimal" ->
            << [op |-> "scale", interp |-> "cubic", factor |-> 2],
               [op |-> "grayscale"],
               [op |-> "threshold", kind |-> "fixed", cutoff |-> 127] >>
      [] m = "receipt" ->
            << [op |-> "scale", interp |-> "cubic", factor |-> 3],
               [op |-> "grayscale"],
               [op |-> "clahe", clip |-> 2, tw |-> 8, th |-> 8],
               [op |-> "threshold", kind |-> "otsu"],
               [op |-> "dilate", kw |-> 3, kh |-> 3, iters |-> 2] >>

PipelineDone == pc \in {"imwrite", "print", "returned"} \/ written

\* C3: for each concrete mode, whatever the image, the operations applied
\* are a prefix of the table's row for that mode at every moment and the
\* whole row once the pipeline function has returned; every run of a mode
\* therefore applies the same sequence.
C3_StepTable ==
    (Advanced /\ ran # "none" /\ mode \in ConcreteModes) =>
        /\ IsPrefix(applied, RegistryTable(mode))
        /\ PipelineDone => applied = RegistryTable(mode)

C3_Witness ==
    /\ Advanced /\ pc = "returned" /\ mode = "aggressive"
    /\ Len(applied) = 5 /\ applied[5].op = "dilate" /\ applied[5].iters = 2

ScaleOf(m) == IF m = "receipt" THEN 3 ELSE 2

\* C4: a success result reports processed dimensions (3w, 3h) for receipt
\* and (2w, 2h) for standard, aggressive and minimal; from the scale step on
\* the image keeps those dimensions.
C4_Dimensions ==
    (Advanced /\ mode \in ConcreteModes) =>
        /\ \A i \in DOMAIN out : out[i].success =>
               out[i].processed_dimensions =
                   <<ScaleOf(mode) * image.w, ScaleOf(mode) * image.h>>
        /\ (ran # "none" /\ Len(applied) >= 1) =>
               /\ cur.w = ScaleOf(mode) * image.w
               /\ cur.h = ScaleOf(mode) * image.h

C4_Witness ==
    /\ Advanced /\ mode = "receipt" /\ pc = "returned"
    /\ image.w = 2 /\ image.h = 1
    /\ out[1].success /\ out[1].processed_dimensions = <<6, 3>>

Ocr == script = "ocr.py"

\* the rows whose confidence is strictly positive
Positive == {i \in DOMAIN tokens : tokens[i].conf > 0}

RECURSIVE ConfSum(_)
ConfSum(S) ==
    IF S = {} THEN 0
    ELSE LET i == CHOOSE j \in S : TRUE
         IN tokens[i].conf + ConfSum(S \ {i})

Abs(x) == IF x < 0 THEN -x ELSE x

\* C5 as stated: the reported average_confidence (in hundredths) is exactly
\* the mean of the strictly positive confidences, and 0 when there is none.
C5_ExactMean ==
    \A i \in DOMAIN out : (Ocr /\ out[i].success) =>
        IF Positive = {} THEN out[i].average_confidence = 0
        ELSE out[i].average_confidence * Cardinality(Positive)
                 = 100 * ConfSum(Positive)

\* C5 amended: the reported average_confidence is the mean of the strictly
\* positive confidences rounded to two decimals (the hundredth nearest to
\* the mean); zero and negative confidences enter neither the sum nor the
\* count; it is 0 when no confidence is positive.
C5_RoundedMean ==
    \A i \in DOMAIN out : (Ocr /\ out[i].success) =>
        IF Positive = {} THEN out[i].average_confidence = 0
        ELSE 2 * Abs(out[i].average_confidence * Cardinality(Positive)
                         - 100 * ConfSum(Positive))
                 <= Cardinality(Positive)

\* a zero, a negative and two positive confidences whose mean has no exact
\* two-decimal form are averaged over the positive ones only
C5_Witness ==
    /\ Ocr /\ pc = "returned" /\ out[1].success
    /\ Len(tokens) = 3
    /\ tokens[1].conf = 80 /\ tokens[2].conf = 0 /\ tokens[3].conf = 81
    /\ out[1].average_confidence = 8050

\* C6: word_count is the number of rows whose text has a non-whitespace
\* character, whatever their confidence; no rows give 0.
C6_WordCount ==
    \A i \in DOMAIN out : (Ocr /\ out[i].success) =>
        out[i].word_count =
            Cardinality({k \in DOMAIN tokens :
                \E j \in DOMAIN tokens[k].text :
                    tokens[k].text[j] \notin Whitespace})

C6_Witness ==
    /\ Ocr /\ pc = "returned" /\ out[1].success
    /\ Len(tokens) = 3
    /\ tokens[1].text = <<"a">> /\ tokens[1].conf = -1
    /\ tokens[2].text = <<" ">>
    /\ tokens[3].text = <<" ", "a", "\t">> /\ tokens[3].conf = 80
    /\ out[1].word_count = 2

\* the six error categories, as the scripts spell them
ErrorCategories ==
    {"File not found", "Invalid image", "Processing failed",
     "Tesseract not found", "OCR failed", "Invalid arguments"}

\* the input exists but no decoder the script uses can read it
Unreadable ==
    exists /\ IF Ocr THEN readable = "none" ELSE readable # "cv"

\* C7: every failure result has success = false and a category of the closed
\* set; a missing input is file-not-found and an unreadable one is
\* invalid-image, in the three scripts alike.
C7_ErrorCategories ==
    \A i \in DOMAIN out : ~out[i].success =>
        /\ out[i].error \in ErrorCategories
        /\ (raised # "none" /\ ~exists) => out[i].error = "File not found"
        /\ (raised # "none" /\ Unreadable) => out[i].error = "Invalid image"

Preprocessing == script \in {"preprocess.py", "preprocess_advanced.py"}

\* C8: the processed image is written only once every step of the pipeline
\* that was entered has been applied; when a step raised, or the input was
\* missing or unreadable, nothing is written and the only result is a failure.
C8_NoPartialOutput ==
    Preprocessing =>
        /\ written => (ran # "none" /\ applied = Pipeline(ran))
        /\ raised \in {"FileNotFoundError", "ValueError", "error"} =>
               /\ ~written
               /\ \A i \in DOMAIN out : ~out[i].success
               /\ pc = "exited" => Len(out) = 1

C8_Witness ==
    /\ Advanced /\ pc = "exited" /\ raised = "error"
    /\ Len(applied) = 3 /\ Len(Pipeline(ran)) = 5
    /\ ~written /\ Len(out) = 1 /\ ~out[1].success

Terminated == pc \in {"returned", "exited"}

\* C9: an invocation prints exactly one result and terminates: at most one
\* result is ever printed, it is printed on termination, a return prints a
\* success and an exit a failure; once an exception is in flight the next
\* step prints the failure and exits with nothing else run; nothing runs
\* after the result; and every invocation terminates.
C9_OneResult ==
    /\ [](Len(out) <= 1)
    /\ [](Terminated <=> Len(out) = 1)
    /\ [](pc = "returned" => out[1].success)
    /\ [](pc = "exited" => ~out[1].success)
    /\ [][raised # "none" =>
             /\ pc' = "exited"
             /\ Len(out') = 1 /\ ~out'[1].success
             /\ UNCHANGED <<mode, ran, cur, applied, steps, raised, avg, wc,
                            written>>]_vars
    /\ [][out # <<>> => UNCHANGED vars]_vars
    /\ <>Terminated

C9_Witness ==
    /\ pc = "exited" /\ raised = "OSError" /\ written = FALSE
    /\ Len(out) = 1 /\ ~out[1].success

\* C10: the mode of a success result of preprocess_advanced.py is one of
\* standard, aggressive, minimal, receipt and is the pipeline that ran.
C10_ReportedMode ==
    \A i \in DOMAIN out : (Advanced /\ out[i].success) =>
        /\ out[i].mode \in ConcreteModes
        /\ out[i].mode = ran

\* what a step description says of its operation: the operation and the
\* parameters the text states
Described(d) ==
    CASE d = "2x Image Scaling (INTER_CUBIC)" ->
            [op |-> "scale", interp |-> "cubic", factor |-> 2]
      [] d = "3x Image Scaling (INTER_CUBIC)" ->
            [op |-> "scale", interp |-> "cubic", factor |-> 3]
      [] d = "Grayscale conversion" -> [op |-> "grayscale"]
      [] d = "Gaussian Blur (5x5 kernel)" ->
            [op |-> "gaussian-blur", kw |-> 5, kh |-> 5]
      [] d = "Otsu's Thresholding" -> [op |-> "threshold", kind |-> "otsu"]
      [] d = "Simple Binary Thresholding" ->
            [op |-> "threshold", kind |-> "fixed"]
      [] d = "Fast NL Means Denoising" -> [op |-> "denoise"]
      [] d = "Adaptive Thresholding (Gaussian)" ->
            [op |-> "adaptive-threshold", method |-> "gaussian"]
      [] d = "CLAHE Contrast Enhancement" -> [op |-> "clahe"]
      [] d = "Dilation (2x2 kernel, 1 iteration)" ->
            [op |-> "dilate", kw |-> 2, kh |-> 2, iters |-> 1]
      [] d = "Dilation (3x3 kernel, 2 iterations)" ->
            [op |-> "dilate", kw |-> 3, kh |-> 3, iters |-> 2]
      [] d = "Morphological Opening (noise removal)" ->
            [op |-> "morphological-open"]
      [] OTHER -> [op |-> "unknown"]

\* the description d names the operation o
Names(d, o) ==
    /\ DOMAIN Described(d) \subseteq DOMAIN o
    /\ \A f \in DOMAIN Described(d) : o[f] = Described(d)[f]

\* C11: in a success result of preprocess.py or preprocess_advanced.py the
\* list of step descriptions is as long as the sequence of operations applied
\* to the image, and the description at each position names the operation
\* applied at that position, with the scale factor, kernel size and
\* iteration count it states.
C11_StepTrail ==
    \A i \in DOMAIN out : (Preprocessing /\ out[i].success) =>
        /\ Len(out[i].preprocessing_steps) = Len(applied)
        /\ \A k \in DOMAIN applied :
               Names(out[i].preprocessing_steps[k], applied[k])

C11_Witness ==
    /\ Advanced /\ pc = "returned" /\ out[1].success /\ ran = "aggressive"
    /\ Len(applied) = 5 /\ Len(out[1].preprocessing_steps) = 5
    /\ applied[3].op = "denoise"
    /\ out[1].preprocessing_steps[3] = "Fast NL Means Denoising"

\* the operations that work on a single-channel image
GrayOps ==
    {"threshold", "adaptive-threshold", "clahe", "gaussian-blur", "denoise",
     "dilate", "morphological-open"}

\* C12: in every mode, in preprocess.py, preprocess_advanced.py and
\* compare_preprocessing.py, a grayscale conversion precedes every threshold,
\* contrast, blur, denoise, dilation and opening step; each of those steps is
\* applied to a single-channel image; and the image a pipeline function
\* returns is single-channel.
C12_GrayscaleFirst ==
    /\ [](\A i \in DOMAIN applied : applied[i].op \in GrayOps =>
             \E j \in 1..(i - 1) : applied[j].op = "grayscale")
    /\ [][(Len(applied') = Len(applied) + 1
             /\ applied'[Len(applied')].op \in GrayOps) => cur.ch = 1]_vars
    /\ []((ran # "none" /\ pc \in {"imwrite", "print", "collect", "save"})
             => cur.ch = 1)

C12_Witness ==
    /\ Comparing /\ pc = "save" /\ ran = "receipt"
    /\ Len(applied) = 5
    /\ applied[2].op = "grayscale" /\ applied[3].op = "clahe"
    /\ cur.ch = 1

\* C13: concurrent invocations on distinct input files share no file: two
\* invocations with different input paths never write the same output file,
\* and no invocation writes its output over its own or another invocation's
\* input file.
C13_NoSharedFiles ==
    \A j, k \in DOMAIN procs :
        /\ (j # k /\ procs[j].path # procs[k].path
              /\ procs[j].wrote # NoPath /\ procs[k].wrote # NoPath)
               => procs[j].wrote # procs[k].wrote
        /\ procs[j].wrote # procs[k].path

====
